---- MODULE Spec2Model ----
(***************************************************************************)
(* Model of projects/Spring_Mass_Damper/notebooks/Untitled.ipynb: a        *)
(* Jupyter notebook that sets up a physics-informed network for the        *)
(* spring-mass-damper equation m x'' + c x' + k x = F(t).                  *)
(*                                                                         *)
(* Two specifications share the module:                                    *)
(*   Spec     the kernel running the notebook's code cells;                *)
(*   SpecOde  the function ode_system applied to bounded inputs.           *)
(***************************************************************************)
EXTENDS Integers, Sequences, FiniteSets

VARIABLES
    ns,               \* names bound in the kernel's global namespace
    execution_count,  \* the kernel's execution counter
    cells,            \* per code cell: execution_count shown and outcome
    iterations,       \* optimizer iterations performed by model.train
    saved,            \* dde.saveplot wrote its files (issave=True)
    plotted,          \* dde.saveplot drew its figures (isplot=True)
    ode_pc,           \* "ready" | "returned": position of an ode_system call
    ode_in,           \* the call's inputs: globals m, c, k, F and t, y, dy/dt
    ode_out           \* the list ode_system returned

kernel_vars == <<ns, execution_count, cells, iterations, saved, plotted>>
ode_vars == <<ode_pc, ode_in, ode_out>>
vars == <<ns, execution_count, cells, iterations, saved, plotted,
          ode_pc, ode_in, ode_out>>

(***************************************************************************)
(* Bounds of the model.                                                    *)
(***************************************************************************)
MaxExec == 7
MaxCoef == 2
MaxVal == 1
MaxT == 2

(***************************************************************************)
(* The notebook's code cells, top to bottom.  A statement is the set of    *)
(* names it reads when it runs, the functions it causes to be called, the  *)
(* names it binds, and its effect outside the namespace.                   *)
(***************************************************************************)
Stmt(r, f, b, e) == [reads |-> r, calls |-> f, binds |-> b, effect |-> e]

epochs == 10000

NoNames == {}

Notebook ==
    << [id |-> "d8851740", parses |-> TRUE, stmts |-> <<>>],
       [id |-> "87195d5c", parses |-> TRUE,
        stmts |-> << Stmt(NoNames, NoNames, {"ode_system"}, "none") >>],
       [id |-> "0a15c860", parses |-> FALSE,
        stmts |-> << Stmt(NoNames, NoNames, {"T"}, "none"),
                     Stmt({"dde", "T"}, NoNames, {"geom"}, "none") >>],
       [id |-> "e52b0ee2", parses |-> TRUE,
        stmts |-> << Stmt({"dde", "geom"}, NoNames, {"ic1"}, "none"),
                     Stmt({"dde", "geom"}, NoNames, {"ic2"}, "none") >>],
       [id |-> "ea0709c2", parses |-> TRUE,
        stmts |-> << Stmt({"dde", "geom", "ode_system", "ic1", "ic2"},
                          NoNames, {"data"}, "none") >>],
       [id |-> "1422c273", parses |-> TRUE,
        stmts |-> << Stmt({"dde"}, NoNames, {"net"}, "none") >>],
       [id |-> "57a9b041", parses |-> TRUE,
        stmts |-> << Stmt({"dde", "data", "net"}, NoNames, {"model"}, "none"),
                     Stmt({"model"}, NoNames, NoNames, "none"),
                     Stmt({"model"}, {"ode_system"},
                          {"losshistory", "train_state"}, "train") >>],
       [id |-> "5dae8e11", parses |-> TRUE,
        stmts |-> << Stmt({"dde", "losshistory", "train_state"},
                          NoNames, NoNames, "saveplot") >> ] >>

NCells == Len(Notebook)

\* The global names a function's body reads when it is called.
FreeGlobals(fn) ==
    IF fn = "ode_system" THEN {"c", "k", "F", "m"} ELSE NoNames

CallReads(s) == UNION { FreeGlobals(fn) : fn \in s.calls }

\* Whether the cell's source compiles ("T = " alone on a line does not).
ParsesAlways(cell) == TRUE

Parses(cell) == cell.parses

IsEmpty(cell) == Len(cell.stmts) = 0

(***************************************************************************)
(* Running a cell's statements in order from kernel state k.  A statement  *)
(* that reads an unbound name raises NameError: the cell stops there and   *)
(* the bindings and effects of its earlier statements stay.               *)
(***************************************************************************)
ApplyEffect(k, s) ==
    [ns |-> k.ns \cup s.binds,
     iterations |-> IF s.effect = "train" THEN k.iterations + epochs
                    ELSE k.iterations,
     saved |-> IF s.effect = "saveplot" THEN TRUE ELSE k.saved,
     plotted |-> IF s.effect = "saveplot" THEN TRUE ELSE k.plotted,
     outcome |-> "ok"]

RECURSIVE RunStmts(_, _)
RunStmts(stmts, k) ==
    IF stmts = <<>> THEN k
    ELSE LET s == Head(stmts) IN
         IF (s.reads \cup CallReads(s)) \subseteq k.ns
         THEN RunStmts(Tail(stmts), ApplyEffect(k, s))
         ELSE [k EXCEPT !.outcome = "NameError"]

Execute(cell, k) ==
    IF Parses(cell) THEN RunStmts(cell.stmts, [k EXCEPT !.outcome = "ok"])
    ELSE [k EXCEPT !.outcome = "SyntaxError"]

KernelInit ==
    /\ ns = NoNames
    /\ execution_count = 0
    /\ cells = [i \in 1..NCells |-> [count |-> 0, outcome |-> "none"]]
    /\ iterations = 0
    /\ saved = FALSE
    /\ plotted = FALSE

\* The user runs code cell i.  An empty cell sends nothing to the kernel.
RunCell(i) ==
    LET cell == Notebook[i] IN
    IF IsEmpty(cell) THEN UNCHANGED vars
    ELSE /\ execution_count < MaxExec
         /\ LET k == [ns |-> ns, iterations |-> iterations, saved |-> saved,
                      plotted |-> plotted, outcome |-> "none"]
                r == Execute(cell, k)
            IN /\ ns' = r.ns
               /\ iterations' = r.iterations
               /\ saved' = r.saved
               /\ plotted' = r.plotted
               /\ execution_count' = execution_count + 1
               /\ cells' = [cells EXCEPT ![i] =
                              [count |-> execution_count + 1,
                               outcome |-> r.outcome]]
         /\ UNCHANGED ode_vars

(***************************************************************************)
(* ode_system(t, y), lines 81-90.  y is the network output (x, v) at t;    *)
(* the body reads the globals c, k, F, m.  "/" is true division: the       *)
(* quotient is kept exact as numerator over denominator.                   *)
(***************************************************************************)
Times == 0..MaxT
Vals == (0 - MaxVal)..MaxVal

Div(a, b) == [num |-> a, den |-> b]

ode_system(t, y, g) ==
    LET x == y[1]
        v == y[2]
        dx_dt == v
        dv_dt == Div((0 - g.c) * v - g.k * x + g.F[t], g.m)
    IN << dx_dt, dv_dt >>

OdeInputs ==
    [m : 1..MaxCoef, c : 0..MaxCoef, k : 0..MaxCoef, F : [Times -> Vals],
     t : Times, x : Vals, v : Vals, dx_dt : Vals, dv_dt : Vals]

OdeIdle ==
    /\ ode_pc = "ready"
    /\ ode_in = [m |-> 1, c |-> 0, k |-> 0, F |-> [t \in Times |-> 0],
                 t |-> 0, x |-> 0, v |-> 0, dx_dt |-> 0, dv_dt |-> 0]
    /\ ode_out = <<>>

OdeInit ==
    /\ ode_pc = "ready"
    /\ ode_in \in OdeInputs
    /\ ode_out = <<>>

\* The framework calls ode_system on a sampled time and the network output.
OdeCall ==
    /\ ode_pc = "ready"
    /\ ode_out' = ode_system(ode_in.t, <<ode_in.x, ode_in.v>>,
                             [m |-> ode_in.m, c |-> ode_in.c,
                              k |-> ode_in.k, F |-> ode_in.F])
    /\ ode_pc' = "returned"
    /\ UNCHANGED <<ode_in, kernel_vars>>

(***************************************************************************)
(* What the notebook itself writes of the initial-condition constraints,   *)
(* lines 131-132 and 151: each one's target function, its predicate over   *)
(* (point, on_initial) and its output component, and the list handed to    *)
(* the data object.  How the constraints are applied to sampled points is  *)
(* the framework's and is not modelled.                                    *)
(***************************************************************************)
ic1_func(t) == 0

ic2_func(t) == 1

ic1_on_initial(x, on_initial) == on_initial

ic2_on_initial(x, on_initial) == on_initial

ic1_component == 0

ic2_component == 1

bcs == << "ic1", "ic2" >>

Init == KernelInit /\ OdeIdle

Next == \E i \in 1..NCells : RunCell(i)

Spec == Init /\ [][Next]_vars

InitOde == KernelInit /\ OdeInit

NextOde == OdeCall

SpecOde == InitOde /\ [][NextOde]_vars

(***************************************************************************)
(* Run order.  The count a cell shows is the kernel's counter at its last  *)
(* run, so the counts 1..k on the first k non-empty cells with a counter   *)
(* of k say that exactly those cells ran, once each, top to bottom.        *)
(***************************************************************************)
NonEmpty == { i \in 1..NCells : ~IsEmpty(Notebook[i]) }

Rank(i) == Cardinality({ j \in NonEmpty : j <= i })

TopDown(n) ==
    /\ execution_count = n
    /\ \A i \in NonEmpty :
          cells[i].count = IF Rank(i) <= n THEN Rank(i) ELSE 0

CellOfRank(r) == CHOOSE i \in NonEmpty : Rank(i) = r

\* The names a cell needs from earlier cells: those a statement reads (or a
\* function it calls reads) that no earlier statement of the cell binds.
RECURSIVE FreeNames(_, _)
FreeNames(stmts, bound) ==
    IF stmts = <<>> THEN {}
    ELSE LET s == Head(stmts) IN
         ((s.reads \cup CallReads(s)) \ bound)
            \cup FreeNames(Tail(stmts), bound \cup s.binds)

\* The cell that sets T and builds the geometry.
GeomCell == CHOOSE i \in 1..NCells : Notebook[i].id = "0a15c860"

RatIsZero(q) == q.num = 0

RatEqInt(q, n) == q.num = n * q.den

\* C1: ode_system returns exactly two residuals, r1 = dx/dt - v and
\* r2 = m*dv/dt + c*v + k*x - F(t), in this order.
C1_ReturnsResiduals ==
    ode_pc = "returned" =>
        /\ Len(ode_out) = 2
        /\ ode_out[1] = ode_in.dx_dt - ode_in.v
        /\ RatEqInt(ode_out[2],
                    ode_in.m * ode_in.dv_dt + ode_in.c * ode_in.v
                       + ode_in.k * ode_in.x - ode_in.F[ode_in.t])

\* C2: both returned values are zero exactly when the outputs satisfy the
\* governing equation at t: dx/dt = v and m*dv/dt + c*v + k*x = F(t).
C2_ZeroIffSatisfied ==
    ode_pc = "returned" =>
        ((ode_out[1] = 0 /\ RatIsZero(ode_out[2]))
          <=> /\ ode_in.dx_dt = ode_in.v
              /\ ode_in.m * ode_in.dv_dt + ode_in.c * ode_in.v
                    + ode_in.k * ode_in.x = ode_in.F[ode_in.t])

\* The cell that builds ic1 and ic2.
ICCell == CHOOSE i \in 1..NCells : Notebook[i].id = "e52b0ee2"

\* C3: exactly two initial-condition constraints are built: once their cell
\* has run, ic1 and ic2 exist; ic1 is on component 0 with target 0, ic2 on
\* component 1 with target 1; each one's predicate accepts a point exactly
\* when the point is flagged on_initial, whatever the point's coordinate.
C3_TwoConstraintsBuilt ==
    cells[ICCell].count > 0 =>
        /\ cells[ICCell].outcome = "ok"
        /\ \A i \in 1..Len(bcs) : bcs[i] \in ns
        /\ bcs = << "ic1", "ic2" >>
        /\ ic1_component = 0 /\ ic2_component = 1
        /\ \A t \in Times : ic1_func(t) = 0 /\ ic2_func(t) = 1
        /\ \A x \in Times : \A on_initial \in BOOLEAN :
              /\ ic1_on_initial(x, on_initial) = on_initial
              /\ ic2_on_initial(x, on_initial) = on_initial

\* C8: with T left unset the geometry cell ends in the error it raised,
\* nothing is substituted for T, the geometry is never built, every later
\* cell that is run ends in an error too, no training iteration is performed
\* and no loss history or plot output is produced.
C8_UnsetHorizonIsSurfaced ==
    /\ cells[GeomCell].count > 0 => cells[GeomCell].outcome = "SyntaxError"
    /\ "T" \notin ns /\ "geom" \notin ns
    /\ \A i \in NonEmpty :
          (i > GeomCell /\ cells[i].count > 0) => cells[i].outcome = "NameError"
    /\ iterations = 0
    /\ "losshistory" \notin ns
    /\ ~saved /\ ~plotted

\* C8's case: every code cell has been run, once each, top to bottom.
C8_Witness == TopDown(Cardinality(NonEmpty))

\* C10: in a top-to-bottom run, every name the next cell reads has been
\* bound by an earlier cell or an earlier statement of the cell.
C10_NamesBoundBeforeUse ==
    \A n \in 0..(Cardinality(NonEmpty) - 1) :
        TopDown(n) => FreeNames(Notebook[CellOfRank(n + 1)].stmts, {}) \subseteq ns

====
